---------------------------- MODULE Spec2Model ----------------------------
(* A model of src/app.py, the CWR extractor: the encoding resolver, the   *)
(* token extractors (the module's regular expressions), the ACK, REV and  *)
(* NWR line parsers, the file walker process_cwr_file with its cache, and *)
(* the upload loop that concatenates the per-file results.                *)
(*                                                                        *)
(* Text is a sequence of code points (integers), bytes a sequence of      *)
(* integers in 0..255. The empty string is <<>>. Offsets into text are    *)
(* 0-based and half-open, as in Python: Slice(s, a, b) is s[a:b].         *)
EXTENDS Integers, Sequences, FiniteSets, TLC

VARIABLES
    uploaded,        \* the uploaded files, in the caller's order: <<name, bytes>> records
    up,              \* position of the upload loop (index of the next file)
    pc,              \* "loop" | "walk" | "done", or a step of the ACK branch
    file_name,       \* process_cwr_file's arguments for the call in progress
    file_bytes,
    encoding,        \* process_cwr_file's locals
    content,
    lines,
    i,               \* enumerate(lines, start=1): the line being looked at
    acks,
    obras,
    last_rev_title,
    cache,           \* st.cache_data's store: (name, bytes) -> <<acks, obras>>
    all_acks,        \* the upload loop's accumulators
    all_obras,
    data             \* parse_ack_line's dict, when the ACK branch runs step by step

vars == <<uploaded, up, pc, file_name, file_bytes, encoding, content, lines, i,
          acks, obras, last_rev_title, cache, all_acks, all_obras, data>>

Min(a, b) == IF a < b THEN a ELSE b
Max(a, b) == IF a > b THEN a ELSE b

-----------------------------------------------------------------------------
(* Character classes of Python's re on str patterns. \d and \w are given *)
(* for the code points below 256, the ones the inputs below decode to;    *)
(* U+FFFD, the replacement marker, is in no class.                        *)

\* \d
IsDigit(c) == c \in 48..57

\* [A-Z]
IsUpper(c) == c \in 65..90

\* [0-9 ]
IsDigitOrBlank(c) == c \in 48..57 \/ c = 32

\* \s and str.strip()
IsSpace(c) ==
    IF c <= 32 THEN c \in 9..13 \/ c \in 28..32
    ELSE /\ c >= 133
         /\ \/ c \in {133, 160, 5760, 8232, 8233, 8239, 8287, 12288}
            \/ c \in 8192..8202

\* \w
IsWord(c) ==
    IF c < 128 THEN c \in 48..57 \/ c \in 65..90 \/ c = 95 \/ c \in 97..122
    ELSE \/ c \in {170, 178, 179, 181, 185, 186, 188, 189, 190}
         \/ c \in 192..214 \/ c \in 216..246 \/ c \in 248..255

\* the line boundaries of str.splitlines()
IsLineBreak(c) == c \in {10, 11, 12, 13, 28, 29, 30, 133, 8232, 8233}

\* s[a:b], Python's slice with 0 <= a
Slice(s, a, b) == SubSeq(s, a + 1, Min(b, Len(s)))

\* s[-n:]
LastChars(s, n) == SubSeq(s, Max(1, Len(s) - n + 1), Len(s))

\* c is in the character class named cls
InClass(cls, c) ==
    CASE cls = "\\d"     -> IsDigit(c)
      [] cls = "[A-Z]"   -> IsUpper(c)
      [] cls = "[0-9 ]"  -> IsDigitOrBlank(c)
      [] cls = "\\s"     -> IsSpace(c)

\* every character of s[a:b] is in the class
AllIn(s, a, b, cls) == b <= Len(s) /\ \A q \in (a + 1)..b : InClass(cls, s[q])

\* where the run of class characters starting at offset p ends
RunEnd(s, p, cls) ==
    CHOOSE e \in p..Len(s) :
        /\ (e = Len(s) \/ ~InClass(cls, s[e + 1]))
        /\ \A q \in (p + 1)..e : InClass(cls, s[q])

\* \b at offset p
WordBoundary(s, p) ==
    LET before == p > 0 /\ IsWord(s[p])
        after  == p < Len(s) /\ IsWord(s[p + 1])
    IN  before # after

\* s.startswith(lit, p)
StartsAt(s, p, lit) == p + Len(lit) <= Len(s) /\ \A q \in 1..Len(lit) : s[p + q] = lit[q]

\* s.find(lit): the least offset, -1 when absent
Find(s, lit) ==
    LET hits == {p \in 0..Len(s) : StartsAt(s, p, lit)}
    IN  IF hits = {} THEN -1 ELSE CHOOSE p \in hits : \A q \in hits : p <= q

SetMax(S) == CHOOSE x \in S : \A y \in S : y <= x
SetMin(S) == CHOOSE x \in S : \A y \in S : x <= y

NoMatch == [found |-> FALSE]

-----------------------------------------------------------------------------
(* clean_spaces, lines 27-28 *)

\* the entries of a sequence of marks that are marks: -1 stands for none
IsMarked(x) == x >= 0

Strip(s) ==
    IF \A q \in 1..Len(s) : IsSpace(s[q]) THEN <<>>
    ELSE IF ~IsSpace(s[1]) /\ ~IsSpace(s[Len(s)]) THEN s
    ELSE LET first == CHOOSE q \in 1..Len(s) :
                        ~IsSpace(s[q]) /\ \A r \in 1..(q - 1) : IsSpace(s[r])
             last == CHOOSE q \in 1..Len(s) :
                        ~IsSpace(s[q]) /\ \A r \in (q + 1)..Len(s) : IsSpace(s[r])
         IN  SubSeq(s, first, last)

\* re.sub(r"\s{2,}", " ", s): a run of two or more whitespace characters
\* becomes one blank; a single whitespace character stays what it is
CollapseRuns(s) ==
    LET out(q) == IF IsSpace(s[q]) /\ q < Len(s) /\ IsSpace(s[q + 1]) THEN 32 ELSE s[q]
        marks == [q \in 1..Len(s) |->
                    IF IsSpace(s[q]) /\ q > 1 /\ IsSpace(s[q - 1]) THEN -1 ELSE out(q)]
    IN  SelectSeq(marks, IsMarked)

clean_spaces(s) == CollapseRuns(Strip(s))

-----------------------------------------------------------------------------
(* Codecs: bytes.decode(encoding) strictly (lines 33-34) and with         *)
(* errors="replace" (line 158).                                           *)

ReplacementMarker == <<65533>>

\* how many continuation bytes a UTF-8 lead byte announces; -1: not a lead byte
Utf8Need(b) ==
    IF b < 128 THEN 0
    ELSE IF b \in 194..223 THEN 1
    ELSE IF b \in 224..239 THEN 2
    ELSE IF b \in 240..244 THEN 3
    ELSE -1

\* the range of continuation byte number j after lead byte b
Utf8ContOk(b, j, c) ==
    IF j > 1 THEN c \in 128..191
    ELSE IF b = 224 THEN c \in 160..191
    ELSE IF b = 237 THEN c \in 128..159
    ELSE IF b = 240 THEN c \in 144..191
    ELSE IF b = 244 THEN c \in 128..143
    ELSE c \in 128..191

\* the number of valid continuation bytes that follow the lead byte at index p
Utf8Good(bs, p) ==
    LET need == Utf8Need(bs[p])
        ks == {k \in 0..Max(need, 0) :
                 \A j \in 1..k : p + j <= Len(bs) /\ Utf8ContOk(bs[p], j, bs[p + j])}
    IN  IF need <= 0 THEN 0 ELSE SetMax(ks)

Utf8CodePoint(bs, p) ==
    LET b == bs[p]
        need == Utf8Need(b)
    IN  IF need = 0 THEN b
        ELSE IF need = 1 THEN (b - 192) * 64 + (bs[p + 1] - 128)
        ELSE IF need = 2
             THEN (b - 224) * 4096 + (bs[p + 1] - 128) * 64 + (bs[p + 2] - 128)
        ELSE (b - 240) * 262144 + (bs[p + 1] - 128) * 4096
             + (bs[p + 2] - 128) * 64 + (bs[p + 3] - 128)

\* the sequence starting at index p is well formed
Utf8OkAt(bs, p) ==
    bs[p] < 128 \/ (Utf8Need(bs[p]) >= 0 /\ Utf8Good(bs, p) = Utf8Need(bs[p]))

\* how far the decoder moves from index p: over a well-formed sequence, or,
\* with errors="replace", over the bytes of an ill-formed one that were well
\* formed, which become one marker
Utf8Advance(bs, p) ==
    IF Utf8Need(bs[p]) <= 0 THEN 1
    ELSE IF Utf8OkAt(bs, p) THEN 1 + Utf8Need(bs[p]) ELSE 1 + Utf8Good(bs, p)

\* the decoder stops at index p: no sequence begun at one of the three bytes
\* before runs over it (a byte a sequence runs over is a continuation byte,
\* from which the decoder would move by one)
Utf8StopsAt(bs, p) ==
    bs[p] \in 128..191 => \A q \in Max(1, p - 3)..(p - 1) : q + Utf8Advance(bs, q) <= p

\* bs.decode("utf-8") raises nothing
Utf8Valid(bs) == \A p \in 1..Len(bs) : Utf8StopsAt(bs, p) => Utf8OkAt(bs, p)

\* bs.decode("utf-8", errors="replace")
Utf8Replace(bs) ==
    LET marks == [p \in 1..Len(bs) |->
                    IF ~Utf8StopsAt(bs, p) THEN -1
                    ELSE IF Utf8OkAt(bs, p) THEN Utf8CodePoint(bs, p)
                    ELSE ReplacementMarker[1]]
    IN  SelectSeq(marks, IsMarked)

\* cp1252's code points for the bytes 0x80..0x9F; -1: the byte is undefined
Cp1252High ==
    <<8364, -1, 8218, 402, 8222, 8230, 8224, 8225, 710, 8240, 352, 8249, 338, -1,
      381, -1, -1, 8216, 8217, 8220, 8221, 8226, 8211, 8212, 732, 8482, 353, 8250,
      339, -1, 382, 376>>

Cp1252Char(b) == IF b \in 128..159 THEN Cp1252High[b - 127] ELSE b

\* file_bytes.decode(encoding) raises nothing
StrictOk(bs, enc) ==
    CASE enc = "utf-8"      -> Utf8Valid(bs)
      [] enc = "iso-8859-1" -> TRUE
      [] enc = "cp1252"     -> \A q \in 1..Len(bs) : Cp1252Char(bs[q]) # -1
      [] enc = "ascii"      -> \A q \in 1..Len(bs) : bs[q] < 128

\* file_bytes.decode(encoding, errors="replace")
Decode(bs, enc) ==
    CASE enc = "utf-8"      -> Utf8Replace(bs)
      [] enc = "iso-8859-1" -> bs
      [] enc = "cp1252"     ->
            [q \in 1..Len(bs) |->
                IF Cp1252Char(bs[q]) = -1 THEN 65533 ELSE Cp1252Char(bs[q])]
      [] enc = "ascii"      ->
            [q \in 1..Len(bs) |-> IF bs[q] < 128 THEN bs[q] ELSE 65533]

(* detect_encoding, lines 31-38 *)

CandidatesWithoutLatin1 == <<"utf-8", "cp1252", "ascii">>

Candidates == <<"utf-8", "iso-8859-1", "cp1252", "ascii">>

\* the first candidate that decodes; 'utf-8' when none does (line 38)
detect_encoding(bs) ==
    LET try(k) == k <= Len(Candidates) /\ StrictOk(bs, Candidates[k])
    IN  IF try(1) THEN Candidates[1]
        ELSE IF try(2) THEN Candidates[2]
        ELSE IF try(3) THEN Candidates[3]
        ELSE IF try(4) THEN Candidates[4]
        ELSE "utf-8"

\* content.splitlines(), line 159
\* a line ends at a line break; "\r\n" is one line break; what follows the
\* last line break is a line unless it is empty
splitlines(s) ==
    LET brk == SelectSeq([q \in 1..Len(s) |->
                            IF IsLineBreak(s[q]) /\ ~(s[q] = 10 /\ q > 1 /\ s[q - 1] = 13)
                            THEN q ELSE -1],
                         IsMarked)
        size(q) == IF s[q] = 13 /\ q < Len(s) /\ s[q + 1] = 10 THEN 2 ELSE 1
        nth(k) == brk[k]
        from(k) == IF k = 1 THEN 1 ELSE nth(k - 1) + size(nth(k - 1))
        m == Len(brk)
        n == IF from(m + 1) <= Len(s) THEN m + 1 ELSE m
    IN  [k \in 1..n |-> SubSeq(s, from(k), IF k <= m THEN nth(k) - 1 ELSE Len(s))]

-----------------------------------------------------------------------------
(* The regular expressions, lines 13-23. A search returns the leftmost    *)
(* match; within one start offset a greedy quantifier takes the longest   *)
(* repetition from which the rest of the pattern still matches.           *)

CU == <<67, 85>>
ESCU == <<69, 83, 67, 85>>
ACK == <<65, 67, 75>>
REV == <<82, 69, 86>>
NWR == <<78, 87, 82>>

\* \b<lit>\d+\b at offset p: the offset where the match ends, -1 for no match
TokenAt(s, p, lit) ==
    IF StartsAt(s, p, lit) /\ WordBoundary(s, p)
    THEN LET d0 == p + Len(lit)
             ends == {e \in (d0 + 1)..Len(s) :
                        AllIn(s, d0, e, "\\d") /\ WordBoundary(s, e)}
         IN  IF ends = {} THEN -1 ELSE SetMax(ends)
    ELSE -1

TokenSearch(s, lit) ==
    LET starts == {p \in 0..Len(s) : TokenAt(s, p, lit) # -1}
    IN  IF starts = {} THEN NoMatch
        ELSE LET p == SetMin(starts)
                 e == TokenAt(s, p, lit)
             IN  [found |-> TRUE, start |-> p, end |-> e, group0 |-> Slice(s, p, e)]

\* CU_RE = \bCU\d+\b, line 13
CU_RE_search(s) == TokenSearch(s, CU)

\* ESCU_RE = \bESCU\d+\b, line 14
ESCU_RE_search(s) == TokenSearch(s, ESCU)

\* CU_RE.search(line) or ESCU_RE.search(line), lines 60 and 111
SubmitterSearch(s) ==
    LET cu == CU_RE_search(s)
    IN  IF cu.found THEN cu ELSE ESCU_RE_search(s)

\* re.search(r"\b(ESCU\d+|CU\d+)\b", line), line 132
RevTokenAt(s, p) ==
    LET e == TokenAt(s, p, ESCU)
    IN  IF e # -1 THEN e ELSE TokenAt(s, p, CU)

RevTokenSearch(s) ==
    LET starts == {p \in 0..Len(s) : RevTokenAt(s, p) # -1}
    IN  IF starts = {} THEN NoMatch
        ELSE LET p == SetMin(starts)
                 e == RevTokenAt(s, p)
             IN  [found |-> TRUE, start |-> p, end |-> e, group0 |-> Slice(s, p, e)]

\* SOCIETY_CODE_RE = \b(\d{6,15})\b, line 15
SocietyAt(s, p) ==
    IF p < Len(s) /\ IsDigit(s[p + 1]) /\ WordBoundary(s, p)
    THEN LET ends == {e \in (p + 6)..Min(p + 15, Len(s)) :
                        AllIn(s, p, e, "\\d") /\ WordBoundary(s, e)}
         IN  IF ends = {} THEN -1 ELSE SetMax(ends)
    ELSE -1

SOCIETY_CODE_RE_search(s) ==
    LET starts == {p \in 0..Len(s) : SocietyAt(s, p) # -1}
    IN  IF starts = {} THEN NoMatch
        ELSE LET p == SetMin(starts)
                 e == SocietyAt(s, p)
             IN  [found |-> TRUE, start |-> p, end |-> e, group1 |-> Slice(s, p, e)]

\* DATE_STATUS_RE = \b(\d{8})([A-Z]{2,3})?\b, line 16: the number of status
\* letters matched at offset p (3 before 2 before none), -1 for no match
DateStatusAt(s, p) ==
    IF AllIn(s, p, p + 8, "\\d") /\ WordBoundary(s, p)
    THEN LET ks == {k \in {0, 2, 3} :
                      AllIn(s, p + 8, p + 8 + k, "[A-Z]") /\ WordBoundary(s, p + 8 + k)}
         IN  IF ks = {} THEN -1 ELSE SetMax(ks)
    ELSE -1

DATE_STATUS_RE_search(s) ==
    LET starts == {p \in 0..Len(s) : DateStatusAt(s, p) # -1}
    IN  IF starts = {} THEN NoMatch
        ELSE LET p == SetMin(starts)
                 k == DateStatusAt(s, p)
             IN  [found |-> TRUE, start |-> p, end |-> p + 8 + k,
                  group1 |-> Slice(s, p, p + 8),
                  group2 |-> Slice(s, p + 8, p + 8 + k)]

\* <tag>[0-9 ]* at the start of s removed: ACK_PREFIX_RE.sub("", s), line 17,
\* and REV_PREFIX_RE.sub("", s), line 18
PrefixSub(s, tag) ==
    IF StartsAt(s, 0, tag)
    THEN Slice(s, RunEnd(s, Len(tag), "[0-9 ]"), Len(s))
    ELSE s

ACK_PREFIX_RE_sub(s) == PrefixSub(s, ACK)
REV_PREFIX_RE_sub(s) == PrefixSub(s, REV)

\* re.sub(r'^NWR\d*\s*', '', s), line 117
NwrPrefixSub(s) ==
    IF StartsAt(s, 0, NWR)
    THEN Slice(s, RunEnd(s, RunEnd(s, 3, "\\d"), "\\s"), Len(s))
    ELSE s

\* ACK_WORK_RE = (?P<work_id>\d{6,15})\s+(?P<date>\d{8})(?P<status>[A-Z]{2,3})?\s*$,
\* lines 21-23, at offset p: <<end of work_id, start of date, status letters>>
\* of every way to match; the engine returns the greatest in this order
AckWorkAt(s, p) ==
    IF p + 6 > Len(s) \/ ~IsDigit(s[p + 1]) THEN {}
    ELSE
    UNION {UNION {{<<e1, e2, k>> :
                     k \in {k \in {0, 2, 3} :
                              /\ AllIn(s, e2 + 8, e2 + 8 + k, "[A-Z]")
                              /\ AllIn(s, e2 + 8 + k, Len(s), "\\s")}} :
                  e2 \in {e2 \in (e1 + 1)..RunEnd(s, e1, "\\s") :
                            AllIn(s, e2, e2 + 8, "\\d")}} :
           e1 \in (p + 6)..Min(p + 15, RunEnd(s, p, "\\d"))}

Before(c, d) ==
    \/ c[1] < d[1]
    \/ c[1] = d[1] /\ c[2] < d[2]
    \/ c[1] = d[1] /\ c[2] = d[2] /\ c[3] < d[3]

ACK_WORK_RE_search(s) ==
    LET starts == {p \in 0..Len(s) : AckWorkAt(s, p) # {}}
    IN  IF starts = {} THEN NoMatch
        ELSE LET p == SetMin(starts)
                 ways == AckWorkAt(s, p)
                 c == CHOOSE c \in ways : \A d \in ways : d = c \/ Before(d, c)
             IN  [found |-> TRUE, start |-> p,
                  work_id |-> Slice(s, p, c[1]),
                  date |-> Slice(s, c[2], c[2] + 8),
                  status |-> Slice(s, c[2] + 8, c[2] + 8 + c[3])]

-----------------------------------------------------------------------------
(* parse_ack_line, lines 41-106, in the three parts its comments name *)

EmptyData ==
    [title |-> <<>>, submitter |-> <<>>, society_code |-> <<>>,
     date |-> <<>>, status |-> <<>>]

\* lines 77-86: society code and date/status to the right of the submitter
ClassicRight(d, right) ==
    LET society_match == SOCIETY_CODE_RE_search(right)
    IN  IF ~society_match.found THEN d
        ELSE LET d1 == [d EXCEPT !.society_code = society_match.group1]
                 right2 == Slice(right, society_match.end, Len(right))
                 ds == DATE_STATUS_RE_search(right2)
             IN  IF ~ds.found THEN d1
                 ELSE [d1 EXCEPT !.date = ds.group1,
                                 !.status = IF ds.group2 # <<>> THEN ds.group2 ELSE @]

\* 1) lines 59-86: the classic mode, CU/ESCU in the line
ClassicPipeline(line) ==
    LET cu == SubmitterSearch(line)
    IN  IF ~cu.found THEN EmptyData
        ELSE LET left == Slice(line, 0, cu.start)
                 title_guess == clean_spaces(ACK_PREFIX_RE_sub(left))
                 title == IF Len(title_guess) > 140
                          THEN LastChars(title_guess, 140) ELSE title_guess
             IN  ClassicRight([EmptyData EXCEPT !.submitter = cu.group0,
                                                !.title = title],
                              Slice(line, cu.end, Len(line)))

\* 2.1) lines 90-94: the title from the 60 characters after 'NWR'
FallbackTitle(d, line) ==
    LET nwr_idx == Find(line, NWR)
    IN  IF nwr_idx # -1 /\ Len(d.title) < 3
        THEN [d EXCEPT !.title = clean_spaces(Slice(line, nwr_idx + 3, nwr_idx + 3 + 60))]
        ELSE d

\* the fallback written as an assignment of every field of the match
FallbackWorkOverwriting(d, line) ==
    LET m == ACK_WORK_RE_search(line)
    IN  IF ~m.found THEN d
        ELSE [d EXCEPT !.society_code = m.work_id, !.date = m.date,
                       !.status = m.status]

\* 2.2) lines 97-104: work id, date and status from the end of the line
FallbackWork(d, line) ==
    LET m == ACK_WORK_RE_search(line)
    IN  IF ~m.found THEN d
        ELSE [d EXCEPT
                !.society_code = IF @ = <<>> THEN m.work_id ELSE @,
                !.date = IF @ = <<>> THEN m.date ELSE @,
                !.status = IF @ = <<>> /\ m.status # <<>> THEN m.status ELSE @]

parse_ack_line(line) == FallbackWork(FallbackTitle(ClassicPipeline(line), line), line)

(* parse_nwr_line, lines 109-127 *)
parse_nwr_line(line) ==
    LET cu_match == SubmitterSearch(line)
    IN  IF cu_match.found
        THEN [titulo |-> Slice(clean_spaces(NwrPrefixSub(Slice(line, 0, cu_match.start))),
                               0, 80),
              codigo_obra |-> cu_match.group0]
        ELSE [titulo |-> clean_spaces(Slice(line, 10, 80)), codigo_obra |-> <<>>]

(* parse_rev_line, lines 130-137 *)
parse_rev_line(line) ==
    LET m == RevTokenSearch(line)
    IN  IF ~m.found THEN <<>>
        ELSE clean_spaces(REV_PREFIX_RE_sub(Slice(line, 0, m.start)))

(* to_date_human, lines 140-146 *)
Digit(s, q) == s[q] - 48

DaysIn(year, month) ==
    IF month = 2
    THEN (IF year % 4 = 0 /\ (year % 100 # 0 \/ year % 400 = 0) THEN 29 ELSE 28)
    ELSE IF month \in {4, 6, 9, 11} THEN 30 ELSE 31

\* datetime.strptime(d, "%Y%m%d") raises nothing, for a d of 8 characters
IsCalendarDate(d) ==
    /\ \A q \in 1..8 : IsDigit(d[q])
    /\ LET year == Digit(d, 1) * 1000 + Digit(d, 2) * 100 + Digit(d, 3) * 10 + Digit(d, 4)
           month == Digit(d, 5) * 10 + Digit(d, 6)
           day == Digit(d, 7) * 10 + Digit(d, 8)
       IN  year >= 1 /\ month \in 1..12 /\ day \in 1..DaysIn(year, month)

to_date_human(d) ==
    IF d = <<>> \/ Len(d) # 8 THEN <<>>
    ELSE IF IsCalendarDate(d)
         THEN SubSeq(d, 1, 4) \o <<45>> \o SubSeq(d, 5, 6) \o <<45>> \o SubSeq(d, 7, 8)
         ELSE <<>>

-----------------------------------------------------------------------------
(* process_cwr_file, lines 151-207, and the upload loop, lines 218-229 *)

\* line 166: raw.rstrip("\r\n").strip(), for the line the loop is at
CurLineUnstripped == lines[i]

CurLine == Strip(lines[i])

\* line 168
Skipped(line) == line = <<>> \/ Len(line) < 3

\* line 171
record_type(line) == Slice(line, 0, 3)

\* line 163: the value last_rev_title has when a file's walk starts
CarriedRevTitle == last_rev_title

InitialRevTitle == <<>>

\* lines 182-183: the last REV title stands in for a title that came out short
RevFallbackWhenEmpty(d, lrt) ==
    IF d.title = <<>> /\ lrt # <<>> THEN [d EXCEPT !.title = lrt] ELSE d

RevFallback(d, lrt) ==
    IF Len(d.title) < 3 /\ lrt # <<>> THEN [d EXCEPT !.title = lrt] ELSE d

\* lines 186-191: nothing useful came out, the row is not added
NeverDiscarded(d) == FALSE

Discarded(d) == d.title = <<>> /\ d.society_code = <<>> /\ d.submitter = <<>>

\* lines 193-196
AckRow(d, name, n) ==
    [title |-> clean_spaces(d.title), submitter |-> d.submitter,
     society_code |-> d.society_code, date |-> d.date, status |-> d.status,
     file |-> name, line_no |-> n, date_human |-> to_date_human(d.date)]

\* lines 202-204
ObraRow(line, name, n) ==
    [titulo |-> parse_nwr_line(line).titulo,
     codigo_obra |-> parse_nwr_line(line).codigo_obra,
     file |-> name, line_no |-> n]

\* line 151: st.cache_data keys an entry by the call's arguments
CacheKeyByName(name, bytes) == <<name, <<>>>>

CacheKey(name, bytes) == <<name, bytes>>

\* lines 228-229: list.extend
ExtendFront(all, part) == part \o all

Extend(all, part) == all \o part

\* line 227, the arguments are cached: the stored lists are returned, nothing runs
CallHit ==
    /\ pc = "loop"
    /\ up <= Len(uploaded)
    /\ CacheKey(uploaded[up].name, uploaded[up].bytes) \in DOMAIN cache
    /\ LET hit == cache[CacheKey(uploaded[up].name, uploaded[up].bytes)]
       IN  /\ all_acks' = Extend(all_acks, hit[1])
           /\ all_obras' = Extend(all_obras, hit[2])
    /\ up' = up + 1
    /\ UNCHANGED <<uploaded, pc, file_name, file_bytes, encoding, content, lines, i,
                   acks, obras, last_rev_title, cache, data>>

\* line 227, a miss: lines 157-163 run
CallMiss ==
    /\ pc = "loop"
    /\ up <= Len(uploaded)
    /\ CacheKey(uploaded[up].name, uploaded[up].bytes) \notin DOMAIN cache
    /\ file_name' = uploaded[up].name
    /\ file_bytes' = uploaded[up].bytes
    /\ encoding' = detect_encoding(uploaded[up].bytes)
    /\ content' = Decode(uploaded[up].bytes, encoding')
    /\ lines' = splitlines(content')
    /\ acks' = <<>>
    /\ obras' = <<>>
    /\ last_rev_title' = InitialRevTitle
    /\ i' = 1
    /\ pc' = "walk"
    /\ UNCHANGED <<uploaded, up, cache, all_acks, all_obras, data>>

AtLine == pc = "walk" /\ i <= Len(lines)

WalkFrame ==
    UNCHANGED <<uploaded, up, pc, file_name, file_bytes, encoding, content, lines,
                cache, all_acks, all_obras, data>>

\* lines 168-169
StepSkip ==
    /\ AtLine
    /\ Skipped(CurLine)
    /\ i' = i + 1
    /\ UNCHANGED <<acks, obras, last_rev_title>>
    /\ WalkFrame

\* lines 174-175
StepREV ==
    /\ AtLine
    /\ ~Skipped(CurLine)
    /\ record_type(CurLine) = REV
    /\ last_rev_title' = parse_rev_line(CurLine)
    /\ i' = i + 1
    /\ UNCHANGED <<acks, obras>>
    /\ WalkFrame

\* lines 178-198, the row is added
StepACK ==
    /\ AtLine
    /\ ~Skipped(CurLine)
    /\ record_type(CurLine) = ACK
    /\ LET d == RevFallback(parse_ack_line(CurLine), last_rev_title)
       IN  /\ ~Discarded(d)
           /\ acks' = Append(acks, AckRow(d, file_name, i))
    /\ i' = i + 1
    /\ UNCHANGED <<obras, last_rev_title>>
    /\ WalkFrame

\* lines 178-191, the row is dropped
StepACKDiscard ==
    /\ AtLine
    /\ ~Skipped(CurLine)
    /\ record_type(CurLine) = ACK
    /\ Discarded(RevFallback(parse_ack_line(CurLine), last_rev_title))
    /\ i' = i + 1
    /\ UNCHANGED <<acks, obras, last_rev_title>>
    /\ WalkFrame

\* lines 201-205
StepNWR ==
    /\ AtLine
    /\ ~Skipped(CurLine)
    /\ record_type(CurLine) = NWR
    /\ obras' = Append(obras, ObraRow(CurLine, file_name, i))
    /\ i' = i + 1
    /\ UNCHANGED <<acks, last_rev_title>>
    /\ WalkFrame

\* a line of any other type: no branch of lines 174-205 is taken
StepOther ==
    /\ AtLine
    /\ ~Skipped(CurLine)
    /\ record_type(CurLine) \notin {REV, ACK, NWR}
    /\ i' = i + 1
    /\ UNCHANGED <<acks, obras, last_rev_title>>
    /\ WalkFrame

\* line 207 returns, st.cache_data stores the result, lines 228-229 extend
Return ==
    /\ pc = "walk"
    /\ i > Len(lines)
    /\ cache' = [k \in DOMAIN cache \cup {CacheKey(file_name, file_bytes)} |->
                    IF k = CacheKey(file_name, file_bytes) THEN <<acks, obras>>
                    ELSE cache[k]]
    /\ all_acks' = Extend(all_acks, acks)
    /\ all_obras' = Extend(all_obras, obras)
    /\ up' = up + 1
    /\ pc' = "loop"
    /\ UNCHANGED <<uploaded, file_name, file_bytes, encoding, content, lines, i,
                   acks, obras, last_rev_title, data>>

\* the loop of line 222 is over: the tables of lines 233-273 are shown
Finish ==
    /\ pc = "loop"
    /\ up > Len(uploaded)
    /\ pc' = "done"
    /\ UNCHANGED <<uploaded, up, file_name, file_bytes, encoding, content, lines, i,
                   acks, obras, last_rev_title, cache, all_acks, all_obras, data>>

Next ==
    \/ CallHit
    \/ CallMiss
    \/ StepSkip
    \/ StepREV
    \/ StepACK
    \/ StepACKDiscard
    \/ StepNWR
    \/ StepOther
    \/ Return
    \/ Finish

-----------------------------------------------------------------------------
(* The inputs: what the uploader hands over, st.file_uploader of lines    *)
(* 212-216 with accept_multiple_files.                                    *)

\* the files of one upload, the lines in them taken together, and the bytes
\* of a file of arbitrary bytes
MaxFiles == 2
MaxLines == 3
MaxBytes == 3

Names == {"a.cwr", "b.cwr"}

\* "REV1 SONG CU9": a REV line with a title
RevTitled == <<82, 69, 86, 49, 32, 83, 79, 78, 71, 32, 67, 85, 57>>
\* "REV2": a REV line with no CU/ESCU token
RevBare == <<82, 69, 86, 50>>
\* " ACK1": an indented ACK line nothing can be extracted from
AckBare == <<32, 65, 67, 75, 49>>
\* "ACK2 AB CU5 123456 20240115AC": an ACK line with a two-letter title
AckShort == <<65, 67, 75, 50, 32, 65, 66, 32, 67, 85, 53, 32, 49, 50, 51, 52, 53, 54, 32, 50, 48, 50, 52, 48, 49, 49, 53, 65, 67>>
\* "NWR1 NI\xD1O CU8": a work line in Latin-1, not valid UTF-8
NwrLatin == <<78, 87, 82, 49, 32, 78, 73, 209, 79, 32, 67, 85, 56>>

LineSet == {RevTitled, RevBare, AckBare, AckShort, NwrLatin}

\* 'A', '\n', and the bytes 0xC3, 0x81, 0xFF: C3 81 is a valid UTF-8 sequence,
\* each of the three alone is not, and 0x81 is undefined in cp1252
ByteAlphabet == {65, 10, 195, 129, 255}

RECURSIVE JoinLines(_)
JoinLines(ls) ==
    IF Len(ls) = 0 THEN <<>>
    ELSE IF Len(ls) = 1 THEN ls[1]
    ELSE ls[1] \o <<10>> \o JoinLines(Tail(ls))

FilesOf(k) ==
    {[name |-> n, bytes |-> JoinLines(ls)] : n \in Names, ls \in [1..k -> LineSet]}

\* the uploads of f files with at most budget lines in all, none of them empty
RECURSIVE UploadsOf(_, _)
UploadsOf(f, budget) ==
    IF f = 0 THEN {<<>>}
    ELSE UNION {{<<x>> \o rest : x \in FilesOf(k), rest \in UploadsOf(f - 1, budget - k)} :
                k \in 1..(budget - (f - 1))}

\* names count by being the same or not: the first file is "a.cwr"
TextUploads ==
    {u \in UNION {UploadsOf(f, MaxLines) : f \in 1..MaxFiles} : u[1].name = "a.cwr"}

ByteUploads ==
    {<<[name |-> "a.cwr", bytes |-> b]>> :
        b \in UNION {[1..k -> ByteAlphabet] : k \in 0..MaxBytes}}

Init ==
    /\ uploaded \in TextUploads \cup ByteUploads
    /\ up = 1
    /\ pc = "loop"
    /\ file_name = ""
    /\ file_bytes = <<>>
    /\ encoding = ""
    /\ content = <<>>
    /\ lines = <<>>
    /\ i = 1
    /\ acks = <<>>
    /\ obras = <<>>
    /\ last_rev_title = <<>>
    /\ cache = <<>>
    /\ all_acks = <<>>
    /\ all_obras = <<>>
    /\ data = EmptyData

Spec == Init /\ [][Next]_vars

-----------------------------------------------------------------------------
(* The ACK branch of the walk, lines 178-198, one step of parse_ack_line  *)
(* and of the branch at a time: the operators are those StepACK and       *)
(* StepACKDiscard apply in one go. The line is lines[i].                  *)

\* lines 59-86
AckClassic ==
    /\ pc = "ack:classic"
    /\ data' = ClassicPipeline(CurLine)
    /\ pc' = "ack:title"
    /\ UNCHANGED <<uploaded, up, file_name, file_bytes, encoding, content, lines, i,
                   acks, obras, last_rev_title, cache, all_acks, all_obras>>

\* lines 90-94
AckFallbackTitle ==
    /\ pc = "ack:title"
    /\ data' = FallbackTitle(data, CurLine)
    /\ pc' = "ack:work"
    /\ UNCHANGED <<uploaded, up, file_name, file_bytes, encoding, content, lines, i,
                   acks, obras, last_rev_title, cache, all_acks, all_obras>>

\* lines 97-106
AckFallbackWork ==
    /\ pc = "ack:work"
    /\ data' = FallbackWork(data, CurLine)
    /\ pc' = "ack:rev"
    /\ UNCHANGED <<uploaded, up, file_name, file_bytes, encoding, content, lines, i,
                   acks, obras, last_rev_title, cache, all_acks, all_obras>>

\* lines 182-183
AckRevFallback ==
    /\ pc = "ack:rev"
    /\ data' = RevFallback(data, last_rev_title)
    /\ pc' = "ack:guard"
    /\ UNCHANGED <<uploaded, up, file_name, file_bytes, encoding, content, lines, i,
                   acks, obras, last_rev_title, cache, all_acks, all_obras>>

\* lines 186-198, the row is added
AckEmit ==
    /\ pc = "ack:guard"
    /\ ~Discarded(data)
    /\ acks' = Append(acks, AckRow(data, file_name, i))
    /\ i' = i + 1
    /\ pc' = "ack:end"
    /\ UNCHANGED <<uploaded, up, file_name, file_bytes, encoding, content, lines,
                   obras, last_rev_title, cache, all_acks, all_obras, data>>

\* lines 186-191, the row is dropped
AckDrop ==
    /\ pc = "ack:guard"
    /\ Discarded(data)
    /\ i' = i + 1
    /\ pc' = "ack:end"
    /\ UNCHANGED <<uploaded, up, file_name, file_bytes, encoding, content, lines,
                   acks, obras, last_rev_title, cache, all_acks, all_obras, data>>

NextAck ==
    \/ AckClassic
    \/ AckFallbackTitle
    \/ AckFallbackWork
    \/ AckRevFallback
    \/ AckEmit
    \/ AckDrop

(* The ACK lines the steps are applied to: "ACK1", then one choice of     *)
(* each part in turn.                                                     *)

\* the title field: none, two letters, or words two blanks apart
TitlePart ==
    {<<>>,
     <<32, 65, 66>>,
     <<32, 77, 89, 32, 32, 83, 79, 78, 71>>}

\* the submitter tokens: none, CU, ESCU, ESCU before CU, CU before ESCU
TokenPart ==
    {<<>>,
     <<32, 67, 85, 53>>,
     <<32, 69, 83, 67, 85, 50>>,
     <<32, 69, 83, 67, 85, 50, 32, 88, 32, 67, 85, 53>>,
     <<32, 67, 85, 53, 32, 69, 83, 67, 85, 50>>}

\* a society code
SocietyPart ==
    {<<>>,
     <<32, 49, 50, 51, 52, 53, 54>>}

\* a date, with a status or with letters that are none
DatePart ==
    {<<>>,
     <<32, 50, 48, 50, 51, 48, 49, 48, 49>>,
     <<32, 50, 48, 50, 51, 48, 49, 48, 49, 82, 74>>,
     <<32, 50, 48, 50, 51, 48, 49, 48, 49, 65, 66, 67, 68>>}

\* an embedded 'NWR' title block
NwrPart ==
    {<<>>,
     <<32, 78, 87, 82, 32, 79, 84, 72, 69, 82>>}

\* work id, date and status at the end of the line
TailPart ==
    {<<>>,
     <<32, 55, 54, 53, 52, 51, 50, 49, 32, 50, 48, 50, 52, 48, 49, 49, 53, 65, 67>>,
     <<32, 55, 54, 53, 52, 51, 50, 49, 32, 50, 48, 50, 52, 48, 49, 49, 53>>}

AckLines ==
    {ACK \o <<49>> \o a \o b \o c \o d \o e \o f :
        a \in TitlePart, b \in TokenPart, c \in SocietyPart, d \in DatePart,
        e \in NwrPart, f \in TailPart}

\* what last_rev_title holds when the ACK line is reached: nothing, or "SONG"
RevTitles == {<<>>, parse_rev_line(RevTitled)}

InitAck ==
    /\ uploaded = <<>>
    /\ up = 1
    /\ pc = "ack:classic"
    /\ file_name = "a.cwr"
    /\ file_bytes = <<>>
    /\ encoding = "utf-8"
    /\ \E line \in AckLines : content = line /\ lines = <<line>>
    /\ i = 1
    /\ acks = <<>>
    /\ obras = <<>>
    /\ last_rev_title \in RevTitles
    /\ cache = <<>>
    /\ all_acks = <<>>
    /\ all_obras = <<>>
    /\ data = EmptyData

SpecAck == InitAck /\ [][NextAck]_vars

-----------------------------------------------------------------------------
(* The properties. What they say of a line is said of the line as the     *)
(* file holds it, lines[j], not of the walker's own reading of it.        *)

\* the first three characters of a line as split
RawType(l) == Slice(l, 0, 3)

\* the first three characters of a line once trimmed; <<>> for a line of
\* fewer than three
LineType(l) ==
    LET line == Strip(l)
    IN  IF Len(line) < 3 THEN <<>> ELSE Slice(line, 0, 3)

\* the REV lines before line j, and the title of the last of them
RevBefore(ls, j) == {k \in 1..(j - 1) : LineType(ls[k]) = REV}

RevTitleAt(ls, j) ==
    LET revs == RevBefore(ls, j)
    IN  IF revs = {} THEN <<>> ELSE parse_rev_line(Strip(ls[SetMax(revs)]))

\* what the ACK parser extracts from line j on its own
OwnData(ls, j) == parse_ack_line(Strip(ls[j]))

AllEmpty(d) == d.title = <<>> /\ d.society_code = <<>> /\ d.submitter = <<>>

\* ACK line j is one the emission guard drops
Dropped(ls, j) == AllEmpty(RevFallback(OwnData(ls, j), RevTitleAt(ls, j)))

RowAt(rows, n) == {q \in 1..Len(rows) : rows[q].line_no = n}

Increasing(rows) ==
    \A q \in 1..(Len(rows) - 1) : rows[q].line_no < rows[q + 1].line_no

\* the lines of an uploaded file
DecodedLines(f) == splitlines(Decode(f.bytes, detect_encoding(f.bytes)))

\* C1: once a REV line of the file has set a title T, REV lines that yield
\* an empty title leave it alone: an ACK line reached after them finds
\* last_rev_title = T.
C1_EmptyRevKeepsTitle ==
    (pc = "walk" /\ i <= Len(lines) /\ LineType(lines[i]) = ACK) =>
        \A j \in 1..(i - 1) :
            ( /\ LineType(lines[j]) = REV
              /\ parse_rev_line(Strip(lines[j])) # <<>>
              /\ \A k \in (j + 1)..(i - 1) :
                    LineType(lines[k]) = REV => parse_rev_line(Strip(lines[k])) = <<>> )
            => last_rev_title = parse_rev_line(Strip(lines[j]))

\* an ACK line of the walk so far whose own title is under 3 characters and
\* whose most recent REV line yielded a title
ShortAfterTitledRev(j) ==
    /\ LineType(lines[j]) = ACK
    /\ RevTitleAt(lines, j) # <<>>
    /\ Len(OwnData(lines, j).title) < 3

\* C2: every ACK line whose own title is under 3 characters, and whose most
\* recent REV line in the file yielded a title T, has a row, titled T.
C2_ShortTitleTakesRevTitle ==
    pc = "walk" =>
        \A j \in 1..(i - 1) :
            ShortAfterTitledRev(j) =>
                /\ RowAt(acks, j) # {}
                /\ \A q \in RowAt(acks, j) : acks[q].title = RevTitleAt(lines, j)

C2_Witness ==
    /\ pc = "walk"
    /\ \E j \in 1..(i - 1) :
          /\ ShortAfterTitledRev(j)
          /\ OwnData(lines, j).title # <<>>
          /\ \E q \in RowAt(acks, j) : acks[q].title = RevTitleAt(lines, j)

RowFilled(r) == r.title # <<>> \/ r.society_code # <<>> \/ r.submitter # <<>>

\* an ACK line with no CU/ESCU token, no trailing work-id/date pattern and
\* no 'NWR' in it, before which no REV line of the file yielded a title
NothingToExtract(j) ==
    LET line == Strip(lines[j])
    IN  /\ LineType(lines[j]) = ACK
        /\ Find(line, NWR) = -1
        /\ ~CU_RE_search(line).found
        /\ ~ESCU_RE_search(line).found
        /\ ~ACK_WORK_RE_search(line).found
        /\ \A k \in RevBefore(lines, j) : parse_rev_line(Strip(lines[k])) = <<>>

\* C3: every ACK row, in the walk's list and in the table, has a title, a
\* society code or a submitter; an ACK line with nothing to extract has no row.
C3_EmissionGuard ==
    /\ \A q \in 1..Len(acks) : RowFilled(acks[q])
    /\ \A q \in 1..Len(all_acks) : RowFilled(all_acks[q])
    /\ pc = "walk" => \A j \in 1..(i - 1) : NothingToExtract(j) => RowAt(acks, j) = {}

C3_Witness ==
    /\ pc = "walk"
    /\ acks # <<>>
    /\ \E j \in 1..(i - 1) : NothingToExtract(j) /\ RowAt(acks, j) = {}

\* a line's type as the first three characters of the line, trimmed or as it is
TypeOf(trimmed, l) == IF trimmed THEN LineType(l) ELSE RawType(l)

\* the NWR lines of the files parsed so far, as <<file, line>> index pairs
NwrLines(trimmed) ==
    UNION {LET ls == DecodedLines(uploaded[f])
           IN  {<<f, j>> : j \in {j \in 1..Len(ls) : TypeOf(trimmed, ls[j]) = NWR}} :
           f \in 1..(up - 1)}

\* the ACK lines of the files parsed so far that the emission guard lets through
AckLinesKept(trimmed) ==
    UNION {LET ls == DecodedLines(uploaded[f])
           IN  {<<f, j>> : j \in {j \in 1..Len(ls) :
                                    TypeOf(trimmed, ls[j]) = ACK /\ ~Dropped(ls, j)}} :
           f \in 1..(up - 1)}

\* the ACK lines of the files parsed so far that the emission guard drops
AckLinesDropped ==
    UNION {LET ls == DecodedLines(uploaded[f])
           IN  {<<f, j>> : j \in {j \in 1..Len(ls) :
                                    LineType(ls[j]) = ACK /\ Dropped(ls, j)}} :
           f \in 1..(up - 1)}

\* C4 as stated: the Work table has a row for each line whose first three
\* characters are NWR, the Ack table a row for each line whose first three
\* characters are ACK and that the emission guard does not drop, over all
\* the files parsed. (The tables and the files parsed change between
\* walks only, so the counts are compared there.)
C4_CountsByFirstThree ==
    pc # "walk" =>
        /\ Len(all_obras) = Cardinality(NwrLines(FALSE))
        /\ Len(all_acks) = Cardinality(AckLinesKept(FALSE))

\* C4, amended: the same, the first three characters being those of the
\* line with the whitespace around it trimmed.
C4_CountsByTrimmedType ==
    pc # "walk" =>
        /\ Len(all_obras) = Cardinality(NwrLines(TRUE))
        /\ Len(all_acks) = Cardinality(AckLinesKept(TRUE))

\* two files gave a work row and an ACK row, and an ACK line was dropped
C4_Witness ==
    /\ pc = "done"
    /\ Len(uploaded) = 2
    /\ all_obras # <<>>
    /\ all_acks # <<>>
    /\ AckLinesDropped # {}

\* C5: last_rev_title is empty when a file's walk starts, and a row's title
\* that is not the ACK line's own is the title of a REV line above it in the
\* same file.
C5_RevTitlePerFile ==
    pc = "walk" =>
        /\ i = 1 => last_rev_title = <<>>
        /\ \A q \in 1..Len(acks) :
              acks[q].title # OwnData(lines, acks[q].line_no).title =>
                  \E k \in RevBefore(lines, acks[q].line_no) :
                      parse_rev_line(Strip(lines[k])) = acks[q].title

\* the first file left a REV title, the second has walked past an ACK line
\* with nothing in it, and no row came of it
C5_Witness ==
    /\ Len(uploaded) = 2
    /\ uploaded[1].bytes = RevTitled
    /\ up = 2
    /\ pc = "walk"
    /\ i = 2
    /\ LineType(lines[1]) = ACK
    /\ acks = <<>>

\* the arguments of the call the upload loop is about to make
NextCall == <<uploaded[up].name, uploaded[up].bytes>>

\* C6: an entry of the cache is never changed or removed; a call whose
\* (name, bytes) pair is cached returns the stored lists and runs nothing;
\* a call that ran is stored under its own (name, bytes) pair.
C6_CacheIdempotent ==
    [][ /\ \A k \in DOMAIN cache : k \in DOMAIN cache' /\ cache'[k] = cache[k]
        /\ (pc = "loop" /\ up <= Len(uploaded) /\ NextCall \in DOMAIN cache) =>
              /\ pc' = "loop"
              /\ cache' = cache
              /\ all_acks' = all_acks \o cache[NextCall][1]
              /\ all_obras' = all_obras \o cache[NextCall][2]
              /\ UNCHANGED <<acks, obras, lines, i, last_rev_title>>
        /\ (pc = "loop" /\ up <= Len(uploaded) /\ NextCall \notin DOMAIN cache) =>
              pc' = "walk"
        /\ (pc = "walk" /\ pc' = "loop") =>
              /\ DOMAIN cache' = DOMAIN cache \cup {<<file_name, file_bytes>>}
              /\ cache'[<<file_name, file_bytes>>] = <<acks, obras>>
      ]_vars

\* the second call repeated the first and was served from the cache
C6_Witness ==
    /\ pc = "loop"
    /\ up = 3
    /\ uploaded[1] = uploaded[2]
    /\ Cardinality(DOMAIN cache) = 1
    /\ all_acks # <<>>
    /\ all_acks = cache[<<uploaded[1].name, uploaded[1].bytes>>][1]
                  \o cache[<<uploaded[1].name, uploaded[1].bytes>>][1]

\* the rows of the file parsed by call number f
ResultOf(f) == cache[<<uploaded[f].name, uploaded[f].bytes>>]

\* how many rows of table t (1: Acks, 2: Works) the files before file f gave
RowsBefore(t, f) ==
    Cardinality(UNION {{<<g, q>> : q \in 1..Len(ResultOf(g)[t])} : g \in 1..(f - 1)})

\* table rows are the rows of file 1, then of file 2, ..., each file's in its order
InFileOrder(all, t) ==
    /\ Len(all) = RowsBefore(t, up)
    /\ \A f \in 1..(up - 1) :
          \A q \in 1..Len(ResultOf(f)[t]) :
              all[RowsBefore(t, f) + q] = ResultOf(f)[t][q]

InLineOrder(rows, name, n) ==
    /\ Increasing(rows)
    /\ \A q \in 1..Len(rows) : rows[q].file = name /\ rows[q].line_no \in 1..n

\* the rows of file f are in line order, and each comes of a line of its type
ResultInOrder(f) ==
    LET ls == DecodedLines(uploaded[f])
        res == ResultOf(f)
    IN  /\ InLineOrder(res[1], uploaded[f].name, Len(ls))
        /\ InLineOrder(res[2], uploaded[f].name, Len(ls))
        /\ \A q \in 1..Len(res[1]) : LineType(ls[res[1][q].line_no]) = ACK
        /\ \A q \in 1..Len(res[2]) : LineType(ls[res[2][q].line_no]) = NWR

\* C7: both tables hold the files' rows in the order the files were given,
\* and one file's rows in strictly increasing line_no, the line's position
\* in the file.
C7_OutputOrder ==
    /\ pc # "walk" =>
          /\ \A f \in 1..(up - 1) :
                /\ <<uploaded[f].name, uploaded[f].bytes>> \in DOMAIN cache
                /\ ResultInOrder(f)
          /\ InFileOrder(all_acks, 1)
          /\ InFileOrder(all_obras, 2)
    /\ pc = "walk" => /\ InLineOrder(acks, file_name, i - 1)
                      /\ InLineOrder(obras, file_name, i - 1)

\* two rows of the first file, then one of the second
C7_Witness ==
    /\ pc = "done"
    /\ Len(uploaded) = 2
    /\ Len(all_acks) = 3
    /\ all_acks[1].file = all_acks[2].file
    /\ all_acks[2].line_no = 2
    /\ all_acks[3].file # all_acks[1].file

InvalidUtf8(bs) == ~StrictOk(bs, "utf-8")

HasMarker(s) == \E q \in 1..Len(s) : s[q] = ReplacementMarker[1]

\* C8 as stated: the text decoded from bytes that are not valid UTF-8 holds a
\* replacement marker.
C8_InvalidBytesGetMarker ==
    (pc = "walk" /\ InvalidUtf8(file_bytes)) => HasMarker(content)

\* C8, amended: bytes that are not valid UTF-8 resolve to ISO-8859-1, every
\* byte decodes to the code point of its value and no replacement marker
\* appears; the walk of such a file ends with its result stored.
C8_InvalidBytesDecodeAsLatin1 ==
    /\ (pc = "walk" /\ InvalidUtf8(file_bytes)) =>
          /\ encoding = "iso-8859-1"
          /\ content = file_bytes
          /\ ~HasMarker(content)
    /\ \A f \in 1..(up - 1) : <<uploaded[f].name, uploaded[f].bytes>> \in DOMAIN cache

\* a file in Latin-1 was parsed, and its work row has the title "NI\xD1O"
C8_Witness ==
    /\ pc = "done"
    /\ InvalidUtf8(uploaded[1].bytes)
    /\ all_obras # <<>>
    /\ all_obras[1].titulo = <<78, 73, 209, 79>>

\* what the classic pipeline extracts from the ACK line
Classic == ClassicPipeline(Strip(lines[1]))

AckFields == {"title", "submitter", "society_code", "date", "status"}

PastClassic == pc \in {"ack:title", "ack:work", "ack:rev", "ack:guard", "ack:end"}

\* the field has, in the dict and in the row that came of it, the value the
\* classic pipeline gave it
KeptFromClassic(f) ==
    /\ data[f] = Classic[f]
    /\ \A q \in 1..Len(acks) : acks[q][f] = Classic[f]

\* C9 as stated: a field that is non-empty after the classic pipeline keeps
\* that value through the fallback pipeline and the last_rev_title fallback.
C9_NonEmptyFieldsKept ==
    PastClassic => \A f \in AckFields : Classic[f] # <<>> => KeptFromClassic(f)

\* C9, amended: submitter, society_code, date and status keep a non-empty
\* value of the classic pipeline, and the title keeps one of 3 characters or
\* more.
C9_SetFieldsKept ==
    PastClassic =>
        /\ \A f \in AckFields \ {"title"} : Classic[f] # <<>> => KeptFromClassic(f)
        /\ Len(Classic.title) >= 3 => KeptFromClassic("title")

\* every fallback had something else to offer, and the row has the classic values
C9_Witness ==
    /\ pc = "ack:end"
    /\ acks # <<>>
    /\ Len(Classic.title) >= 3
    /\ Classic.society_code # <<>>
    /\ Classic.date # <<>>
    /\ Classic.status # <<>>
    /\ Find(lines[1], NWR) # -1
    /\ last_rev_title # <<>>
    /\ ACK_WORK_RE_search(lines[1]).found
    /\ ACK_WORK_RE_search(lines[1]).work_id # Classic.society_code
    /\ ACK_WORK_RE_search(lines[1]).date # Classic.date
    /\ ACK_WORK_RE_search(lines[1]).status # Classic.status

\* the CU<digits> or ESCU<digits> token that starts first in the line
LeftmostToken(line) ==
    LET a == CU_RE_search(line)
        b == ESCU_RE_search(line)
    IN  IF a.found /\ (~b.found \/ a.start < b.start) THEN a ELSE b

\* C10: the submitter of an ACK line is the leftmost of its CU<digits> and
\* ESCU<digits> tokens, and the title is taken from the text left of it.
C10_SubmitterIsLeftmost ==
    (PastClassic /\ LeftmostToken(lines[1]).found) =>
        /\ data.submitter = LeftmostToken(lines[1]).group0
        /\ pc = "ack:title" =>
              data.title = clean_spaces(ACK_PREFIX_RE_sub(
                               Slice(lines[1], 0, LeftmostToken(lines[1]).start)))

=============================================================================
